---- MODULE Spec2Model ----
(***************************************************************************)
(* jumpjump: a directory-jump index kept in an SQLite store.               *)
(*                                                                         *)
(* The model follows src/src/main.rs: the MIGRATIONS scripts statement by  *)
(* statement, the migrate loop (version read, comparison, batch), the      *)
(* upsert of add_location, the three listing queries with their ORDER BY,  *)
(* the regexp() user function with the pattern built by                    *)
(* get_matching_locations, and the `get` subcommand of main.               *)
(*                                                                         *)
(* Strings are sequences of one-character strings.                         *)
(***************************************************************************)
EXTENDS Integers, Sequences, FiniteSets, TLC

VARIABLES
    store,      \* the database file: committed tables and rows
    clock,      \* the latest instant at which strftime('now') was evaluated
    pc,         \* per process: where it is in its run
    mode,       \* per process: "new" (Database::new) or "migrate" (direct call)
    target,     \* per process: desired_version of the running migrate call
    mver,       \* per process: the local migration_version of the loop
    ret,        \* per process: the value returned by its last call
    applied,    \* history: steps committed by the process's migrate call
    startv,     \* history: stored version when that migrate call began
    stepStart,  \* history: the store when that call's last batch began
    hist,       \* history: targets of the migrate calls that applied a step
                \*   (these four are kept until the next operation or close)
    calls,      \* history: successful add_location calls per case-folded location
    origin      \* history: the store the behaviour began with

vars == <<store, clock, pc, mode, target, mver, ret, applied, startv,
          stepStart, hist, calls, origin>>

----------------------------------------------------------------------------
(* Bounds *)

NumProcs == 2       \* processes that open the store
MaxAdds == 3        \* add_location calls in one behaviour
MaxClock == 2       \* latest instant of the clock
MaxTarget == 4      \* largest desired_version handed to migrate

Procs == 1..NumProcs

----------------------------------------------------------------------------
(* Characters and strings *)

NL == "\n"

\* ASCII case folding, as COLLATE NOCASE and the (?i) flag do it on letters.
Lower(c) ==
    CASE c = "A" -> "a"
      [] c = "B" -> "b"
      [] OTHER -> c

FoldStr(s) == [i \in DOMAIN s |-> Lower(s[i])]

\* Canonical absolute paths handed to add_location.
LocAb  == <<"/", "a", "b">>
LocAB  == <<"/", "A", "B">>
LocBdA == <<"/", "b", ".", "a">>
LocNl  == <<"/", "a", NL, "b">>

Locs == {LocAb, LocAB, LocBdA, LocNl}

\* Query tokens: two letters, and two characters the pattern language reads
\* as operators.
TokA    == <<"a">>
TokB    == <<"B">>
TokDot  == <<".">>
TokOpen == <<"(">>

\* The token sequences of the queries.
Patterns ==
    {<<TokA>>, <<TokB>>, <<TokDot>>, <<TokOpen>>,
     <<TokA, TokB>>, <<TokB, TokA>>, <<TokA, TokDot>>}

----------------------------------------------------------------------------
(* The database *)

Null == -1          \* a row of a table that has no lastAccess column

\* The 'localtime' modifier of strftime: the wall-clock reading of the zone
\* at instant t.  The zone is on daylight-saving time until the last instant
\* of the clock, where its wall clock is set back by more than the instants
\* that went by.
DstShift == 2
DstEnd == MaxClock
localtime(t) == IF t < DstEnd THEN t + DstShift ELSE t

\* strftime('%Y-%m-%d %H:%M:%f', 'now', 'localtime') at instant now: texts
\* of one fixed width, which compare as the wall-clock readings do.
strftime_local(now) == localtime(now)

NoTable == [exists |-> FALSE, nocase |-> FALSE, hasLA |-> FALSE, rows |-> {}]

\* A file SQLite has just created: no table at all.
FreshDb ==
    [mvExists |-> FALSE, mvRows |-> <<>>,
     jl |-> NoTable, tmp |-> NoTable, idx |-> "none"]

\* select version from migration_version where id = 1 limit 1; None => 0
StoredVersion(db) ==
    IF Len(db.mvRows) = 0 THEN 0 ELSE db.mvRows[1]

\* Two values of the location column collide on the UNIQUE constraint.
SameKey(t, a, b) ==
    IF t.nocase THEN FoldStr(a) = FoldStr(b) ELSE a = b

NextId(rows) ==
    IF rows = {} THEN 1
    ELSE (CHOOSE m \in {r.id : r \in rows} : \A r \in rows : r.id <= m) + 1

----------------------------------------------------------------------------
(* The statements of the migration scripts.  Exec gives the set of         *)
(* outcomes [ok, db] of one statement run on db at time now.               *)

Done(db) == {[ok |-> TRUE, db |-> db]}
Failed(db) == {[ok |-> FALSE, db |-> db]}

\* create table if not exists jump_location (id .., location STRING UNIQUE, rank ..)
CreateJumpLocationV1(db) ==
    IF db.jl.exists THEN Done(db)
    ELSE Done([db EXCEPT !.jl = [exists |-> TRUE, nocase |-> FALSE,
                                 hasLA |-> FALSE, rows |-> {}]])

\* create index if not exists location_index on jump_location(location)
CreateLocationIndex(db) ==
    IF db.idx # "none" THEN Done(db)
    ELSE IF ~db.jl.exists THEN Failed(db)
    ELSE Done([db EXCEPT !.idx = "jump_location"])

\* insert into migration_version(version) values (1)
InsertVersion(db) ==
    IF ~db.mvExists THEN Failed(db)
    ELSE Done([db EXCEPT !.mvRows = Append(@, 1)])

\* Variant: the step leaves the stored version as it is.
SetVersion_forgotten(db, n) == Done(db)

\* update migration_version set version = n where id = 1
SetVersion(db, n) ==
    IF ~db.mvExists THEN Failed(db)
    ELSE IF Len(db.mvRows) = 0 THEN Done(db)
    ELSE Done([db EXCEPT !.mvRows[1] = n])

\* drop table if exists temp_jump_location  (its indexes go with it)
DropTemp(db) ==
    IF ~db.tmp.exists THEN Done(db)
    ELSE Done([db EXCEPT !.tmp = NoTable,
                         !.idx = IF @ = "temp_jump_location" THEN "none" ELSE @])

\* alter table jump_location rename to temp_jump_location  (indexes follow)
RenameToTemp(db) ==
    IF ~db.jl.exists \/ db.tmp.exists THEN Failed(db)
    ELSE Done([db EXCEPT !.tmp = db.jl, !.jl = NoTable,
                         !.idx = IF @ = "jump_location"
                                 THEN "temp_jump_location" ELSE @])

\* Variant: the new table declared without COLLATE NOCASE.
CreateJumpLocationV2_case_sensitive(db) ==
    IF db.jl.exists THEN Failed(db)
    ELSE Done([db EXCEPT !.jl = [exists |-> TRUE, nocase |-> FALSE,
                                 hasLA |-> FALSE, rows |-> {}]])

\* create table jump_location (id .., location STRING UNIQUE COLLATE NOCASE, rank ..)
CreateJumpLocationV2(db) ==
    IF db.jl.exists THEN Failed(db)
    ELSE Done([db EXCEPT !.jl = [exists |-> TRUE, nocase |-> TRUE,
                                 hasLA |-> FALSE, rows |-> {}]])

\* The rows an INSERT OR IGNORE keeps of src in an empty table t: the first
\* row scanned of every group of colliding keys; the scan order of a SELECT
\* without ORDER BY is not fixed, so any one row of a group may be it.
KeptRows(t, src) ==
    {R \in SUBSET src :
        \A r \in src :
            Cardinality({x \in R : SameKey(t, x.location, r.location)}) = 1}

\* Variant: the copy without the id column, the new table numbering the rows.
CopyFromTemp_new_ids(db) ==
    IF ~db.jl.exists \/ ~db.tmp.exists THEN Failed(db)
    ELSE {[ok |-> TRUE,
           db |-> [db EXCEPT !.jl.rows =
                      {[id |-> Cardinality({x \in R : x.id <= r.id}),
                        location |-> r.location, rank |-> r.rank,
                        lastAccess |-> Null] : r \in R}]] :
            R \in KeptRows(db.jl, db.tmp.rows)}

\* insert or ignore into jump_location
\*   select id, location, rank from temp_jump_location
CopyFromTemp(db) ==
    IF ~db.jl.exists \/ ~db.tmp.exists THEN Failed(db)
    ELSE {[ok |-> TRUE,
           db |-> [db EXCEPT !.jl.rows =
                      {[id |-> r.id, location |-> r.location, rank |-> r.rank,
                        lastAccess |-> Null] : r \in R}]] :
            R \in KeptRows(db.jl, db.tmp.rows)}

\* alter table jump_location add column lastAccess TEXT
AddLastAccessColumn(db) ==
    IF ~db.jl.exists \/ db.jl.hasLA THEN Failed(db)
    ELSE Done([db EXCEPT !.jl.hasLA = TRUE])

\* Variant: the rows that were there keep no lastAccess.
BackfillLastAccess_skipped(db, now) ==
    IF ~db.jl.exists \/ ~db.jl.hasLA THEN Failed(db) ELSE Done(db)

\* update jump_location set lastAccess = strftime(.., 'now', 'localtime')
BackfillLastAccess(db, now) ==
    IF ~db.jl.exists \/ ~db.jl.hasLA THEN Failed(db)
    ELSE Done([db EXCEPT !.jl.rows =
                   {[r EXCEPT !.lastAccess = strftime_local(now)] :
                       r \in db.jl.rows}])

Exec(stmt, db, now) ==
    CASE stmt = "begin"            -> Done(db)
      [] stmt = "commit"           -> Done(db)
      [] stmt = "create_table_v1"  -> CreateJumpLocationV1(db)
      [] stmt = "create_index"     -> CreateLocationIndex(db)
      [] stmt = "insert_version_1" -> InsertVersion(db)
      [] stmt = "drop_temp"        -> DropTemp(db)
      [] stmt = "rename_to_temp"   -> RenameToTemp(db)
      [] stmt = "create_table_v2"  -> CreateJumpLocationV2(db)
      [] stmt = "copy_from_temp"   -> CopyFromTemp(db)
      [] stmt = "set_version_2"    -> SetVersion(db, 2)
      [] stmt = "add_column"       -> AddLastAccessColumn(db)
      [] stmt = "backfill"         -> BackfillLastAccess(db, now)
      [] stmt = "set_version_3"    -> SetVersion(db, 3)

MIGRATIONS ==
    << <<"begin", "create_table_v1", "create_index", "insert_version_1",
         "commit">>,
       <<"begin", "drop_temp", "rename_to_temp", "create_table_v2",
         "create_index", "copy_from_temp", "set_version_2", "commit">>,
       <<"begin", "add_column", "backfill", "set_version_3", "commit">> >>

\* The statements of script from the k-th on, run in the open transaction on
\* the working copy w; statement failAt is refused by the store (0: none is).
\* A failed statement ends the batch with the transaction still open.
RECURSIVE RunFrom(_, _, _, _, _)
RunFrom(script, k, w, now, failAt) ==
    IF k > Len(script) THEN {[ok |-> TRUE, db |-> w]}
    ELSE IF k = failAt THEN {[ok |-> FALSE, db |-> w]}
    ELSE UNION {IF o.ok THEN RunFrom(script, k + 1, o.db, now, failAt)
                        ELSE {o} : o \in Exec(script[k], w, now)}

\* Variant: the statements committed one by one, as without the transaction.
execute_batch_autocommit(script, db, now, failAt) ==
    RunFrom(script, 1, db, now, failAt)

\* dbc.execute_batch(script): what the database file holds afterwards.  The
\* scripts open with `begin transaction` and end with `commit`, so the file
\* takes the working copy only when every statement succeeded; otherwise the
\* transaction is left open and is rolled back when the connection is
\* dropped on the error return.
execute_batch(script, db, now, failAt) ==
    {IF o.ok THEN o ELSE [ok |-> FALSE, db |-> db] :
        o \in RunFrom(script, 1, db, now, failAt)}

----------------------------------------------------------------------------
(* The regexp(pattern, text) user function and the pattern of a query.     *)

RECURSIVE Join(_, _)
Join(toks, sep) ==
    IF Len(toks) = 0 THEN <<>>
    ELSE IF Len(toks) = 1 THEN toks[1]
    ELSE toks[1] \o sep \o Join(Tail(toks), sep)

\* format!("(?i).*{}.*", join(patterns, ".*")): the tokens go in as they are.
PatternOf(toks) ==
    <<"(", "?", "i", ")", ".", "*">> \o Join(toks, <<".", "*">>) \o <<".", "*">>

CaseFlag == <<"(", "?", "i", ")">>

HasCaseFlag(p) == Len(p) >= 4 /\ SubSeq(p, 1, 4) = CaseFlag

PatternBody(p) == IF HasCaseFlag(p) THEN SubSeq(p, 5, Len(p)) ELSE p

\* A pattern body as a sequence of items: a literal character or `.`, each
\* starred when a `*` follows it.
RECURSIVE ParseItems(_, _)
ParseItems(s, acc) ==
    IF s = <<>> THEN acc
    ELSE IF Head(s) = "*"
         THEN ParseItems(Tail(s), [acc EXCEPT ![Len(acc)].star = TRUE])
         ELSE ParseItems(Tail(s),
                  Append(acc, [dot |-> Head(s) = ".", ch |-> Head(s),
                               star |-> FALSE]))

\* Regex::new: a `(` that nothing closes, or a `*` with nothing before it,
\* is a syntax error; otherwise the compiled matcher.
Regex_new(p) ==
    LET body == PatternBody(p)
    IN  IF (\E i \in DOMAIN body : body[i] = "(")
           \/ (body # <<>> /\ Head(body) = "*")
        THEN [ok |-> FALSE, icase |-> FALSE, items |-> <<>>]
        ELSE [ok |-> TRUE, icase |-> HasCaseFlag(p),
              items |-> ParseItems(body, <<>>)]

\* One item against one character: `.` is any character but a line feed.
ItemMatches(re, item, c) ==
    IF item.dot THEN c # NL
    ELSE IF re.icase THEN Lower(item.ch) = Lower(c) ELSE item.ch = c

RECURSIVE MatchHere(_, _, _)
MatchHere(re, items, text) ==
    IF items = <<>> THEN TRUE
    ELSE LET h == Head(items)
         IN  IF h.star
             THEN \/ MatchHere(re, Tail(items), text)
                  \/ /\ text # <<>>
                     /\ ItemMatches(re, h, Head(text))
                     /\ MatchHere(re, items, Tail(text))
             ELSE /\ text # <<>>
                  /\ ItemMatches(re, h, Head(text))
                  /\ MatchHere(re, Tail(items), Tail(text))

\* Regex::is_match: the pattern matches somewhere in the text.
is_match(re, text) ==
    \E k \in 0..Len(text) :
        MatchHere(re, re.items, SubSeq(text, k + 1, Len(text)))

\* regexp(pattern, text) for every query and location of the model:
\* "error" when the pattern does not compile.
RegexpTable ==
    [toks \in Patterns |->
        LET re == Regex_new(PatternOf(toks))
        IN  [l \in Locs |->
                IF ~re.ok THEN "error"
                ELSE IF is_match(re, l) THEN "match" ELSE "nomatch"]]

regexp(toks, l) == RegexpTable[toks][l]

----------------------------------------------------------------------------
(* The operations of Database on a migrated store.                         *)

Ok(v) == [ok |-> TRUE, val |-> v, err |-> ""]
Err(e) == [ok |-> FALSE, val |-> <<>>, err |-> e]

\* Variant: the conflict decided on the exact string.
add_location_exact(db, location, now) ==
    LET hit == {r \in db.jl.rows : r.location = location}
    IN  IF ~db.jl.exists \/ ~db.jl.hasLA
        THEN [db |-> db, res |-> Err("store")]
        ELSE IF hit = {}
        THEN [db |-> [db EXCEPT !.jl.rows = @ \cup
                         {[id |-> NextId(db.jl.rows), location |-> location,
                           rank |-> 1, lastAccess |-> strftime_local(now)]}],
              res |-> Ok(<<>>)]
        ELSE [db |-> [db EXCEPT !.jl.rows =
                         {IF r \in hit
                          THEN [r EXCEPT !.rank = @ + 1,
                                         !.lastAccess = strftime_local(now)]
                          ELSE r : r \in @}],
              res |-> Ok(<<>>)]

\* Variant: insert or replace, the conflicting row replaced by a new one.
add_location_replace(db, location, now) ==
    LET hit == {r \in db.jl.rows : SameKey(db.jl, r.location, location)}
        kept == db.jl.rows \ hit
    IN  IF ~db.jl.exists \/ ~db.jl.hasLA
        THEN [db |-> db, res |-> Err("store")]
        ELSE [db |-> [db EXCEPT !.jl.rows = kept \cup
                         {[id |-> NextId(db.jl.rows), location |-> location,
                           rank |-> 1, lastAccess |-> strftime_local(now)]}],
              res |-> Ok(<<>>)]

\* Variant: on conflict the location is set to the string given.
add_location_overwrite(db, location, now) ==
    LET hit == {r \in db.jl.rows : SameKey(db.jl, r.location, location)}
    IN  IF ~db.jl.exists \/ ~db.jl.hasLA
        THEN [db |-> db, res |-> Err("store")]
        ELSE [db |-> [db EXCEPT !.jl.rows = (@ \ hit) \cup
                         {[id |-> IF hit = {} THEN NextId(db.jl.rows)
                                  ELSE (CHOOSE r \in hit : TRUE).id,
                           location |-> location,
                           rank |-> IF hit = {} THEN 1
                                    ELSE (CHOOSE r \in hit : TRUE).rank + 1,
                           lastAccess |-> strftime_local(now)]}],
              res |-> Ok(<<>>)]

\* insert into jump_location(location, rank, lastAccess) values (?, 1, now)
\*   on conflict(location) do update set rank = rank + 1, lastAccess = now
\* The new database, and Ok(()) or the error of the statement.
add_location(db, location, now) ==
    LET hit == {r \in db.jl.rows : SameKey(db.jl, r.location, location)}
    IN  IF ~db.jl.exists \/ ~db.jl.hasLA
        THEN [db |-> db, res |-> Err("store")]
        ELSE IF hit = {}
        THEN [db |-> [db EXCEPT !.jl.rows = @ \cup
                         {[id |-> NextId(db.jl.rows), location |-> location,
                           rank |-> 1, lastAccess |-> strftime_local(now)]}],
              res |-> Ok(<<>>)]
        ELSE [db |-> [db EXCEPT !.jl.rows =
                         {IF r \in hit
                          THEN [r EXCEPT !.rank = @ + 1,
                                         !.lastAccess = strftime_local(now)]
                          ELSE r : r \in @}],
              res |-> Ok(<<>>)]

\* Variant: order by rank desc, lastAccess asc.
Before_oldest_first(a, b) ==
    \/ a.rank > b.rank
    \/ a.rank = b.rank /\ a.lastAccess <= b.lastAccess

\* order by rank desc, lastAccess desc: a comes no later than b.
Before(a, b) ==
    \/ a.rank > b.rank
    \/ a.rank = b.rank /\ a.lastAccess >= b.lastAccess

\* The statement of a query can be prepared: the table and the column it
\* orders by exist.
Queryable(db) == db.jl.exists /\ db.jl.hasLA

\* Every order in which a query may return rows: rows that agree on rank and
\* lastAccess come in either order.
Ordered(rows) ==
    LET n == Cardinality(rows)
    IN  {s \in [1..n -> rows] :
            /\ \A i, j \in 1..n : i # j => s[i] # s[j]
            /\ \A i, j \in 1..n : i < j => Before(s[i], s[j])}

\* select location from jump_location order by rank desc, lastAccess desc
get_locations(db) ==
    IF ~Queryable(db) THEN {Err("store")}
    ELSE {Ok([i \in DOMAIN s |-> s[i].location]) : s \in Ordered(db.jl.rows)}

\* select location from jump_location where regexp(?, location) order by ..
\* The function runs once per row; a pattern that does not compile fails
\* the query at the first row.
get_matching_locations(db, toks) ==
    IF ~Queryable(db) THEN {Err("store")}
    ELSE IF \E r \in db.jl.rows : regexp(toks, r.location) = "error"
    THEN {Err("regex")}
    ELSE {Ok([i \in DOMAIN s |-> s[i].location]) :
            s \in Ordered({r \in db.jl.rows :
                              regexp(toks, r.location) = "match"})}

\* format!("{} {} {}", location, rank, lastAccess): the characters of the
\* location, then the two numbers in digits, set apart by spaces.
Render(r) ==
    r.location \o <<" ", ToString(r.rank), " ", ToString(r.lastAccess)>>

\* select location, rank, lastAccess from jump_location order by ..
\* row.get::<_, String>(2) fails on a row whose lastAccess is NULL, and the
\* query with it.
get_all_locations(db) ==
    IF ~Queryable(db) THEN {Err("store")}
    ELSE IF \E r \in db.jl.rows : r.lastAccess = Null THEN {Err("type")}
    ELSE {Ok([i \in DOMAIN s |-> Render(s[i])]) : s \in Ordered(db.jl.rows)}

\* Variant: the last of the matching locations.
report_best_location_last(db, toks) ==
    {IF ~m.ok THEN m
     ELSE IF Len(m.val) = 0 THEN Ok(<<>>) ELSE Ok(<<m.val[Len(m.val)]>>) :
        m \in get_matching_locations(db, toks)}

\* report_best_location: the first of the matching locations, if any.
report_best_location(db, toks) ==
    {IF ~m.ok THEN m
     ELSE IF Len(m.val) = 0 THEN Ok(<<>>) ELSE Ok(<<m.val[1]>>) :
        m \in get_matching_locations(db, toks)}

\* main, subcommand get: no pattern lists everything, else the best match.
get(db, toks) ==
    IF Len(toks) = 0 THEN get_locations(db)
    ELSE report_best_location(db, toks)

----------------------------------------------------------------------------
(* The stores a run may find on disk.                                      *)

Keys == {FoldStr(l) : l \in Locs}

\* Rows written by the first release, whose location column told case apart.
OldRows ==
    {[id |-> 1, location |-> LocAb,  rank |-> 2, lastAccess |-> Null],
     [id |-> 2, location |-> LocAB,  rank |-> 1, lastAccess |-> Null],
     [id |-> 3, location |-> LocBdA, rank |-> 1, lastAccess |-> Null]}

\* A store left by the first release: version 1.
V1Db(rows) ==
    [mvExists |-> TRUE, mvRows |-> <<1>>,
     jl |-> [exists |-> TRUE, nocase |-> FALSE, hasLA |-> FALSE, rows |-> rows],
     tmp |-> NoTable, idx |-> "jump_location"]

\* A store written by a later release than this one: a version this program
\* has no migration for.
FutureDb ==
    [mvExists |-> TRUE, mvRows |-> <<Len(MIGRATIONS) + 1>>,
     jl |-> [exists |-> TRUE, nocase |-> TRUE, hasLA |-> TRUE,
             rows |-> {[id |-> 1, location |-> LocAb, rank |-> 1,
                        lastAccess |-> 0]}],
     tmp |-> [exists |-> TRUE, nocase |-> FALSE, hasLA |-> FALSE, rows |-> {}],
     idx |-> "temp_jump_location"]

InitStores == {FreshDb, FutureDb} \cup {V1Db(R) : R \in SUBSET OldRows}

----------------------------------------------------------------------------
(* State *)

NoRet == [op |-> "none", args |-> <<>>, ok |-> TRUE, val |-> <<>>, err |-> ""]

Ret(op, args, r) ==
    [op |-> op, args |-> args, ok |-> r.ok, val |-> r.val, err |-> r.err]

Init ==
    /\ store \in InitStores
    /\ origin = store
    /\ clock = 0
    /\ pc = [p \in Procs |-> "closed"]
    /\ mode = [p \in Procs |-> "none"]
    /\ target = [p \in Procs |-> 0]
    /\ mver = [p \in Procs |-> 0]
    /\ ret = [p \in Procs |-> NoRet]
    /\ applied = [p \in Procs |-> <<>>]
    /\ startv = [p \in Procs |-> 0]
    /\ stepStart = [p \in Procs |-> FreshDb]
    /\ hist = <<>>
    /\ calls = [k \in Keys |-> 0]

\* The instants at which strftime('now') may be evaluated next: no earlier
\* than the last one, and possibly the same millisecond.
Now == clock..MaxClock

\* The add_location calls made so far.
RECURSIVE Sum(_, _)
Sum(f, S) ==
    IF S = {} THEN 0
    ELSE LET x == CHOOSE y \in S : TRUE IN f[x] + Sum(f, S \ {x})

AddCalls == Sum(calls, Keys)

\* Connection::open, by the only process using the store at the time.  The
\* runs follow one another, and which process makes the next one changes
\* nothing, so the first does.
Connect(p) ==
    /\ \A q \in Procs : pc[q] = "closed" /\ p <= q
    /\ pc' = [pc EXCEPT ![p] = "connected"]
    /\ UNCHANGED <<store, clock, mode, target, mver, ret, applied, startv,
                   stepStart, hist, calls, origin>>

\* Variant: the version table is dropped and made anew at every entry.
EnterMigrate_recreate(p, m, t) ==
    /\ pc[p] = "connected"
    /\ store' = [store EXCEPT !.mvExists = TRUE, !.mvRows = <<>>]
    /\ pc' = [pc EXCEPT ![p] = "read"]
    /\ mode' = [mode EXCEPT ![p] = m]
    /\ target' = [target EXCEPT ![p] = t]
    /\ applied' = [applied EXCEPT ![p] = <<>>]
    /\ startv' = [startv EXCEPT ![p] = StoredVersion(store)]
    /\ ret' = [ret EXCEPT ![p] = NoRet]
    /\ UNCHANGED <<clock, mver, stepStart, hist, calls, origin>>

\* Entry of migrate(dbc, t): create table if not exists migration_version.
EnterMigrate(p, m, t) ==
    /\ pc[p] = "connected"
    /\ store' = [store EXCEPT !.mvExists = TRUE]
    /\ pc' = [pc EXCEPT ![p] = "read"]
    /\ mode' = [mode EXCEPT ![p] = m]
    /\ target' = [target EXCEPT ![p] = t]
    /\ applied' = [applied EXCEPT ![p] = <<>>]
    /\ startv' = [startv EXCEPT ![p] = StoredVersion(store)]
    /\ ret' = [ret EXCEPT ![p] = NoRet]
    /\ UNCHANGED <<clock, mver, stepStart, hist, calls, origin>>

\* Database::new -> ensure_tables -> migrate(dbc, MIGRATIONS.len())
New(p) == EnterMigrate(p, "new", Len(MIGRATIONS))

\* migrate(dbc, t) called on its own, on a store no add_location of the
\* behaviour has written to yet.
Migrate(p, t) ==
    /\ AddCalls = 0
    /\ EnterMigrate(p, "migrate", t)

\* The head of the loop: read the stored version.
ReadVersion(p) ==
    /\ pc[p] = "read"
    /\ mver' = [mver EXCEPT ![p] = StoredVersion(store)]
    /\ pc' = [pc EXCEPT ![p] = "check"]
    /\ UNCHANGED <<store, clock, mode, target, ret, applied, startv,
                   stepStart, hist, calls, origin>>

\* migration_version == desired_version: return Ok(()).  Database::new then
\* registers regexp and hands out the Database.
MigrateDone(p) ==
    /\ pc[p] = "check"
    /\ mver[p] = target[p]
    /\ pc' = [pc EXCEPT ![p] = IF mode[p] = "new" THEN "open" ELSE "connected"]
    /\ ret' = [ret EXCEPT ![p] = Ret("migrate", <<>>, Ok(<<>>))]
    /\ UNCHANGED <<store, clock, mode, target, mver, applied, startv,
                   stepStart, hist, calls, origin>>

\* Variant: the guard one version late.
Unrecognized_late(v) == v > Len(MIGRATIONS) + 1

\* if migration_version > MIGRATIONS.len()
Unrecognized(v) == v > Len(MIGRATIONS)

\* return Err("Unrecognized database version")
MigrateUnrecognized(p) ==
    /\ pc[p] = "check"
    /\ mver[p] # target[p]
    /\ Unrecognized(mver[p])
    /\ pc' = [pc EXCEPT ![p] = "failed"]
    /\ ret' = [ret EXCEPT ![p] =
                  Ret("migrate", <<>>, Err("unrecognized"))]
    /\ UNCHANGED <<store, clock, mode, target, mver, applied, startv,
                   stepStart, hist, calls, origin>>

\* MIGRATIONS[migration_version] with an index past the last script: the
\* process panics.
MigratePanic(p) ==
    /\ pc[p] = "check"
    /\ mver[p] # target[p]
    /\ ~Unrecognized(mver[p])
    /\ mver[p] >= Len(MIGRATIONS)
    /\ pc' = [pc EXCEPT ![p] = "failed"]
    /\ ret' = [ret EXCEPT ![p] = Ret("migrate", <<>>, Err("panic"))]
    /\ UNCHANGED <<store, clock, mode, target, mver, applied, startv,
                   stepStart, hist, calls, origin>>

\* Variant: the index one too far.
StepScript_skip(v) ==
    MIGRATIONS[IF v + 2 <= Len(MIGRATIONS) THEN v + 2 ELSE Len(MIGRATIONS)]

\* The script the loop picks for a version it has read (arrays start at 0).
StepScript(v) == MIGRATIONS[v + 1]

ReadsClock(script) == \E k \in DOMAIN script : script[k] = "backfill"

\* dbc.execute_batch(MIGRATIONS[migration_version])?  with the store
\* refusing statement failAt (0: none).
RunStep(p, failAt) ==
    /\ pc[p] = "check"
    /\ mver[p] # target[p]
    /\ ~Unrecognized(mver[p])
    /\ mver[p] < Len(MIGRATIONS)
    /\ \E now \in Now :
       \E o \in execute_batch(StepScript(mver[p]), store, now, failAt) :
          /\ clock' = IF ReadsClock(StepScript(mver[p])) THEN now ELSE clock
          /\ now # clock => ReadsClock(StepScript(mver[p]))
          /\ store' = o.db
          /\ stepStart' = [stepStart EXCEPT ![p] = store]
          /\ IF o.ok
             THEN /\ pc' = [pc EXCEPT ![p] = "read"]
                  /\ applied' = [applied EXCEPT ![p] = Append(@, mver[p] + 1)]
                  /\ hist' = IF applied[p] = <<>> THEN Append(hist, target[p])
                             ELSE hist
                  /\ ret' = ret
             ELSE /\ pc' = [pc EXCEPT ![p] = "failed"]
                  /\ ret' = [ret EXCEPT ![p] =
                                Ret("migrate", <<>>, Err("store"))]
                  /\ UNCHANGED <<applied, hist>>
    /\ UNCHANGED <<mode, target, mver, startv, calls, origin>>

\* A batch every statement of which the store accepts.
MigrateStep(p) == RunStep(p, 0)

\* A batch one statement of which the store refuses (disk full, I/O error).
MigrateStepFails(p) ==
    \E k \in 1..Len(StepScript(IF mver[p] < Len(MIGRATIONS) THEN mver[p] ELSE 0)) :
        RunStep(p, k)

\* The history of the migrate call ends with the next operation.
ForgetMigrate(p) ==
    /\ applied' = [applied EXCEPT ![p] = <<>>]
    /\ startv' = [startv EXCEPT ![p] = 0]
    /\ stepStart' = [stepStart EXCEPT ![p] = FreshDb]
    /\ hist' = <<>>

\* Database::add_location(location)
AddLocation(p, location) ==
    /\ pc[p] = "open"
    /\ AddCalls < MaxAdds
    /\ \E now \in Now :
          LET r == add_location(store, location, now)
          IN  /\ clock' = now
              /\ store' = r.db
              /\ ret' = [ret EXCEPT ![p] =
                            Ret("add_location", <<location>>, r.res)]
              /\ calls' = IF r.res.ok
                          THEN [calls EXCEPT ![FoldStr(location)] = @ + 1]
                          ELSE calls
    /\ ForgetMigrate(p)
    /\ UNCHANGED <<pc, mode, target, mver, origin>>

\* A query: the last call main makes on the Database before it returns.
Returns(p, op, args, outcomes) ==
    /\ pc[p] = "open"
    /\ \E r \in outcomes : ret' = [ret EXCEPT ![p] = Ret(op, args, r)]
    /\ pc' = [pc EXCEPT ![p] = "done"]
    /\ ForgetMigrate(p)
    /\ UNCHANGED <<store, clock, mode, target, mver, calls, origin>>

\* Database::get_locations()
GetLocations(p) ==
    Returns(p, "get_locations", <<>>, get_locations(store))

\* Database::get_matching_locations(patterns)
GetMatchingLocations(p, toks) ==
    Returns(p, "get_matching_locations", toks,
            get_matching_locations(store, toks))

\* Database::get_all_locations()
GetAllLocations(p) ==
    Returns(p, "get_all_locations", <<>>, get_all_locations(store))

\* main, subcommand get
Get(p, toks) ==
    Returns(p, "get", toks, get(store, toks))

\* The connection is dropped: at the end of main, or on an error return.
Close(p) ==
    /\ pc[p] \in {"connected", "open", "done", "failed"}
    /\ pc' = [pc EXCEPT ![p] = "closed"]
    /\ mode' = [mode EXCEPT ![p] = "none"]
    /\ target' = [target EXCEPT ![p] = 0]
    /\ mver' = [mver EXCEPT ![p] = 0]
    /\ ret' = [ret EXCEPT ![p] = NoRet]
    /\ applied' = [applied EXCEPT ![p] = <<>>]
    /\ startv' = [startv EXCEPT ![p] = 0]
    /\ stepStart' = [stepStart EXCEPT ![p] = FreshDb]
    /\ hist' = <<>>
    /\ UNCHANGED <<store, clock, calls, origin>>

Next ==
    \/ \E p \in Procs : Connect(p)
    \/ \E p \in Procs : New(p)
    \/ \E p \in Procs, t \in 0..MaxTarget : Migrate(p, t)
    \/ \E p \in Procs : ReadVersion(p)
    \/ \E p \in Procs : MigrateDone(p)
    \/ \E p \in Procs : MigrateUnrecognized(p)
    \/ \E p \in Procs : MigratePanic(p)
    \/ \E p \in Procs : MigrateStep(p)
    \/ \E p \in Procs, l \in Locs : AddLocation(p, l)
    \/ \E p \in Procs : GetLocations(p)
    \/ \E p \in Procs, toks \in Patterns : GetMatchingLocations(p, toks)
    \/ \E p \in Procs : GetAllLocations(p)
    \/ \E p \in Procs, toks \in Patterns \cup {<<>>} : Get(p, toks)
    \/ \E p \in Procs : Close(p)

Spec == Init /\ [][Next]_vars

\* The same program on a store that may refuse a statement of a batch.
NextFault == Next \/ \E p \in Procs : MigrateStepFails(p)

SpecFault == Init /\ [][NextFault]_vars

\* One turn of the loop of migrate, by process p.
MigrateLoop(p) ==
    \/ ReadVersion(p)
    \/ MigrateDone(p)
    \/ MigrateUnrecognized(p)
    \/ MigratePanic(p)
    \/ MigrateStep(p)

\* The same program, whose process, once in migrate, keeps executing it:
\* the loop has no wait in it.  Every turn of the loop moves pc.
SpecLive == Spec /\ \A p \in Procs : WF_pc(MigrateLoop(p))

\* The two processes of a race.
Pair == {1, 2}

\* Connection::open by a process of its own, whatever the others are doing:
\* nothing in the program keeps two runs apart.
ConnectAnyTime(p) ==
    /\ pc[p] = "closed"
    /\ pc' = [pc EXCEPT ![p] = "connected"]
    /\ UNCHANGED <<store, clock, mode, target, mver, ret, applied, startv,
                   stepStart, hist, calls, origin>>

\* Processes that run main side by side on one store.  A statement outside
\* a transaction and a batch between begin and commit are each one step:
\* the store lets one writer in at a time, and a reader sees only what is
\* committed.
NextConc ==
    \/ \E p \in Pair : ConnectAnyTime(p)
    \/ \E p \in Pair : New(p)
    \/ \E p \in Pair : ReadVersion(p)
    \/ \E p \in Pair : MigrateDone(p)
    \/ \E p \in Pair : MigrateStep(p)
    \/ \E p \in Pair, l \in {LocAb, LocAB} : AddLocation(p, l)
    \/ \E p \in Pair : GetAllLocations(p)

\* The stores of a race: one not at the current version, without rows or
\* with those of the first release.
InitConc == Init /\ store \in {FreshDb, V1Db(OldRows)}

SpecConc == InitConc /\ [][NextConc]_vars

----------------------------------------------------------------------------
(* Properties *)

Rows == store.jl.rows

Migrated == StoredVersion(store) = Len(MIGRATIONS)

RowOf(l) == CHOOSE r \in Rows : r.location = l

Range(v) == {v[i] : i \in DOMAIN v}

NoRepeat(v) == \A i, j \in DOMAIN v : i # j => v[i] # v[j]

\* Higher rank first; of two records of one rank, the later lastAccess first.
InRankOrder(a, b) ==
    \/ a.rank > b.rank
    \/ a.rank = b.rank /\ a.lastAccess >= b.lastAccess

\* The record an entry of get_all_locations renders.
Rendered(e) == CHOOSE r \in Rows : Render(r) = e

SortedLocations(v) ==
    \A i, j \in DOMAIN v : i < j => InRankOrder(RowOf(v[i]), RowOf(v[j]))

\* The locations ever given to the store, up to case: those of the rows it
\* began with and those add_location has been called with.
AddedKeys ==
    {FoldStr(r.location) : r \in origin.jl.rows} \cup {k \in Keys : calls[k] > 0}

\* C1: on a fully migrated store there is exactly one record per location
\* added, locations compared ignoring case: as many records as distinct
\* locations, and no two records with locations equal ignoring case.
C1_OneRecordPerLocation ==
    Migrated =>
        /\ \A a, b \in Rows :
              FoldStr(a.location) = FoldStr(b.location) => a = b
        /\ {FoldStr(r.location) : r \in Rows} = AddedKeys
        /\ Cardinality(Rows) = Cardinality(AddedKeys)

C1_Witness ==
    /\ Migrated
    /\ \E p \in Procs :
          /\ ret[p].op = "add_location"
          /\ ret[p].args = <<LocAB>>
    /\ \E r \in Rows : r.location = LocAb /\ r.rank >= 2
    /\ Cardinality(Rows) >= 2

\* The rank of the record of location l, 0 when there is none.
RankOfLocation(l) ==
    LET hit == {r \in Rows : FoldStr(r.location) = FoldStr(l)}
    IN  IF hit = {} THEN 0 ELSE (CHOOSE r \in hit : TRUE).rank

\* C2: from a fresh store, the rank of the record of a location is the
\* number of add_location calls made with that location (ignoring case),
\* and no add_location call fails.
C2_RankCountsCalls ==
    origin = FreshDb =>
        /\ \A l \in Locs : RankOfLocation(l) = calls[FoldStr(l)]
        /\ \A p \in Procs : ret[p].op = "add_location" => ret[p].ok

C2_Witness ==
    /\ origin = FreshDb
    /\ calls[FoldStr(LocAb)] = MaxAdds - 1
    /\ calls[FoldStr(LocBdA)] = 1
    /\ RankOfLocation(LocAB) = MaxAdds - 1
    /\ \E p \in Procs : ret[p].op = "add_location" /\ ret[p].args = <<LocAb>>

\* C3: get_locations returns every stored location exactly once, by rank
\* descending and, within a rank, the more recent lastAccess first;
\* get_matching_locations and get_all_locations return their entries in the
\* same order; an empty store gives an empty sequence and no error.
C3_ListingsInRankOrder ==
    \A p \in Procs :
        /\ ret[p].op = "get_locations" =>
              /\ ret[p].ok
              /\ NoRepeat(ret[p].val)
              /\ Range(ret[p].val) = {r.location : r \in Rows}
              /\ SortedLocations(ret[p].val)
        /\ (ret[p].op = "get_matching_locations" /\ ret[p].ok) =>
              /\ NoRepeat(ret[p].val)
              /\ Range(ret[p].val) \subseteq {r.location : r \in Rows}
              /\ SortedLocations(ret[p].val)
        /\ ret[p].op = "get_all_locations" =>
              /\ ret[p].ok
              /\ NoRepeat(ret[p].val)
              /\ Range(ret[p].val) = {Render(r) : r \in Rows}
              /\ SortedLocations([i \in DOMAIN ret[p].val |->
                                     Rendered(ret[p].val[i]).location])

C3_Witness ==
    \E p \in Procs :
        /\ ret[p].op = "get_locations"
        /\ Len(ret[p].val) = 3
        /\ RowOf(ret[p].val[1]).rank > RowOf(ret[p].val[2]).rank
        /\ RowOf(ret[p].val[2]).rank = RowOf(ret[p].val[3]).rank
        /\ RowOf(ret[p].val[2]).lastAccess > RowOf(ret[p].val[3]).lastAccess

\* The tokens occur in the text as substrings, one after the other, case
\* ignored.
RECURSIVE OccursInOrder(_, _)
OccursInOrder(toks, text) ==
    IF toks = <<>> THEN TRUE
    ELSE LET t == Head(toks)
         IN  \E k \in 1..(Len(text) - Len(t) + 1) :
                /\ FoldStr(SubSeq(text, k, k + Len(t) - 1)) = FoldStr(t)
                /\ OccursInOrder(Tail(toks),
                                 SubSeq(text, k + Len(t), Len(text)))

\* C4: get_matching_locations returns exactly the stored locations in which
\* all tokens occur as substrings, in the order given, case ignored.
C4_MatchesOrderedSubstrings ==
    \A p \in Procs :
        ret[p].op = "get_matching_locations" =>
            /\ ret[p].ok
            /\ Range(ret[p].val) =
                  {r.location : r \in {x \in Rows :
                                          OccursInOrder(ret[p].args, x.location)}}

MetaChars == {".", "*", "(", "|"}

HasMetaChar(t) == \E i \in DOMAIN t : t[i] \in MetaChars

\* C5: a token with a metacharacter of the pattern language is taken
\* literally: the query does not fail, and every location it returns
\* contains the characters of the token.
C5_MetacharsLiteral ==
    \A p \in Procs :
        (/\ ret[p].op = "get_matching_locations"
         /\ \E i \in DOMAIN ret[p].args : HasMetaChar(ret[p].args[i])) =>
            /\ ret[p].ok
            /\ \A l \in Range(ret[p].val) :
                  \A i \in DOMAIN ret[p].args :
                      HasMetaChar(ret[p].args[i]) =>
                          OccursInOrder(<<ret[p].args[i]>>, l)

\* The rows the query's predicate accepts.
MatchingRows(toks) == {r \in Rows : regexp(toks, r.location) = "match"}

C7_MigrateReachesTarget ==
    \A p \in Procs :
        (/\ ret[p].op = "migrate"
         /\ startv[p] <= target[p]
         /\ target[p] <= Len(MIGRATIONS)) =>
            /\ ret[p].ok
            /\ StoredVersion(store) = target[p]
            /\ applied[p] = [i \in 1..(target[p] - startv[p]) |-> startv[p] + i]

C7_Witness ==
    \E p \in Procs :
        /\ ret[p].op = "migrate"
        /\ ret[p].ok
        /\ startv[p] = 1
        /\ target[p] = Len(MIGRATIONS)
        /\ applied[p] = <<2, 3>>
        /\ Rows # {}

\* What C8 says of a migrate call that found a version past the last step.
RefusedUnchanged(p) ==
    /\ ~ret[p].ok
    /\ ret[p].err = "unrecognized"
    /\ applied[p] = <<>>
    /\ store.jl = origin.jl
    /\ store.tmp = origin.tmp
    /\ StoredVersion(store) = startv[p]

\* C8 as stated: whenever the stored version is greater than the number of
\* known steps, migrate fails with the unrecognized-version error, applies
\* no step and leaves the records and the stored version unchanged.
C8_FutureVersionRefused ==
    \A p \in Procs :
        (ret[p].op = "migrate" /\ startv[p] > Len(MIGRATIONS)) =>
            RefusedUnchanged(p)

\* C8 as amended: the same, for a stored version greater than the number of
\* known steps and different from the target version.
C8_FutureVersionRefusedUnlessTarget ==
    \A p \in Procs :
        /\ (/\ ret[p].op = "migrate"
            /\ startv[p] > Len(MIGRATIONS)
            /\ startv[p] # target[p]) => RefusedUnchanged(p)
        /\ (pc[p] \in {"read", "check"} /\ startv[p] > Len(MIGRATIONS)) =>
              /\ applied[p] = <<>>
              /\ store.jl = origin.jl

C8_Witness ==
    \E p \in Procs :
        /\ ret[p].op = "migrate"
        /\ mode[p] = "new"
        /\ startv[p] = Len(MIGRATIONS) + 1
        /\ ret[p].err = "unrecognized"
        /\ pc[p] = "failed"

\* C9: when a statement of a migration step fails, the store is as it was
\* when the step began (tables, records, version), and migrate has returned
\* an error: the process holds no Database to add to or to query.
C9_FailedStepLeavesNoTrace ==
    \A p \in Procs :
        (ret[p].op = "migrate" /\ ~ret[p].ok /\ ret[p].err = "store") =>
            /\ store = stepStart[p]
            /\ StoredVersion(store) = mver[p]
            /\ pc[p] = "failed"

C9_Witness ==
    \E p \in Procs :
        /\ ret[p].op = "migrate"
        /\ ret[p].err = "store"
        /\ mver[p] = 1
        /\ applied[p] = <<>>
        /\ Cardinality(Rows) = 3
        /\ ~store.jl.nocase

\* The store of a fresh file brought to the current version.
MigratedFresh ==
    [mvExists |-> TRUE, mvRows |-> <<3>>,
     jl |-> [exists |-> TRUE, nocase |-> TRUE, hasLA |-> TRUE, rows |-> {}],
     tmp |-> [exists |-> TRUE, nocase |-> FALSE, hasLA |-> FALSE, rows |-> {}],
     idx |-> "temp_jump_location"]

SchemaOf(db) == [db EXCEPT !.jl.rows = {}]

\* C10: a fresh store brought to the current version is the same store
\* whatever migrate calls brought it there, one call or one call per step:
\* the same tables until the first add_location, and the same schema ever
\* after, so that the operations, which read nothing else, cannot tell.
C10_MigrationPathsAgree ==
    (origin = FreshDb /\ Migrated) =>
        /\ SchemaOf(store) = MigratedFresh
        /\ AddCalls = 0 => store = MigratedFresh

C10_Witness ==
    /\ origin = FreshDb
    /\ Migrated
    /\ hist = <<1, 2, 3>>
    /\ \E p \in Procs : pc[p] = "open" /\ applied[p] = <<>>

\* The record of Rows' with the id of r, as a set: empty when r is gone.
After(r) == {x \in Rows' : x.id = r.id}

\* C11: the rank of a record never decreases: over every step (add_location,
\* a query, opening the store with its migration check) a record that is
\* still there has a rank no lower than before, a record of a store at the
\* current version is still there, and the rank is higher only when the step
\* is a successful add_location of the location of that record.
C11_RankNeverDecreases ==
    [][\A r \in Rows :
          /\ Migrated => After(r) # {}
          /\ \A x \in After(r) :
                /\ x.rank >= r.rank
                /\ x.rank > r.rank =>
                      /\ calls'[FoldStr(r.location)] =
                            calls[FoldStr(r.location)] + 1
                      /\ x.rank = r.rank + 1]_vars

C11_Witness ==
    /\ origin = FreshDb
    /\ \E p \in Procs :
          /\ pc[p] = "open"
          /\ ret[p].op = "migrate"
          /\ startv[p] = Len(MIGRATIONS)
    /\ \E r \in Rows : r.rank >= 2
    /\ Cardinality(Rows) >= 2

\* The record add_location(l) wrote: the one of location l, case ignored.
RecordOf(l) == CHOOSE r \in Rows : FoldStr(r.location) = FoldStr(l)

\* The first half of C12: the record carries the time of the call, as the
\* wall clock of the zone read at that instant.
StampedAtCall(p) ==
    RecordOf(ret[p].args[1]).lastAccess = strftime_local(clock)

\* C12: after a successful add_location(X), first insert or bump, the record
\* of X carries the time of the call, and no other record has a lastAccess
\* later than that of the record of X.
C12_AddedRecordIsLatest ==
    \A p \in Procs :
        (ret[p].op = "add_location" /\ ret[p].ok) =>
            /\ StampedAtCall(p)
            /\ \A r \in Rows :
                  r.lastAccess <= RecordOf(ret[p].args[1]).lastAccess

\* In migrate, between its entry and its return.
InMigrate(p) == pc[p] \in {"read", "check"}

\* C14: during migrate the stored version changes only when a step is
\* applied, and each applied step raises it by exactly 1, to the number of
\* that step, so that it passes through 0, 1, 2, 3 with no value skipped or
\* repeated; and a migrate call that starts from a version between 0 and
\* its target returns.
C14_VersionAdvancesByOne ==
    /\ [][/\ StoredVersion(store') # StoredVersion(store) =>
                /\ StoredVersion(store') = StoredVersion(store) + 1
                /\ \E p \in Procs :
                      applied'[p] = Append(applied[p], StoredVersion(store'))
          /\ \A p \in Procs :
                (InMigrate(p) /\ Len(applied'[p]) > Len(applied[p])) =>
                    /\ StoredVersion(store') = StoredVersion(store) + 1
                    /\ applied'[p] = Append(applied[p], StoredVersion(store'))
                    /\ NoRepeat(applied'[p])]_vars
    /\ \A p \in Procs :
          (InMigrate(p) /\ startv[p] <= target[p]) ~> ~InMigrate(p)

C14_Witness ==
    \E p \in Procs :
        /\ ret[p].op = "migrate"
        /\ ret[p].ok
        /\ startv[p] = 0
        /\ applied[p] = <<1, 2, 3>>
        /\ StoredVersion(store) = 3

\* C15: for every stored version and every desired version, migrate ends by
\* returning Ok with the stored version equal to the desired one, or by
\* returning an error value; it never indexes MIGRATIONS outside 0 ..
\* len - 1 (which panics), and never lowers the stored version.
C15_MigrateEndsInRange ==
    \A p \in Procs :
        /\ ret[p].op = "migrate" =>
              /\ ret[p].ok => StoredVersion(store) = target[p]
              /\ ret[p].err # "panic"
        /\ (InMigrate(p) \/ ret[p].op = "migrate") =>
              StoredVersion(store) >= startv[p]

\* The step process p applied last is step k, and nothing ran since.
JustApplied(p, k) ==
    /\ pc[p] = "read"
    /\ applied[p] # <<>>
    /\ applied[p][Len(applied[p])] = k

\* id, location and rank of a row.
Core(r) == [id |-> r.id, location |-> r.location, rank |-> r.rank]

\* The rows of a table whose location is that of r, case ignored.
SameFolded(rows, r) ==
    {x \in rows : FoldStr(x.location) = FoldStr(r.location)}

\* C16: right after migration step 2 on a version-1 store, of every group of
\* old rows whose locations are equal ignoring case exactly one is in
\* jump_location, with its id, location and rank; a row that had no such
\* duplicate is there unchanged; nothing else is there; and the old rows
\* are all in temp_jump_location.
C16_Step2KeepsOnePerGroup ==
    \A p \in Procs :
        JustApplied(p, 2) =>
            LET old == stepStart[p].jl.rows
            IN  /\ \A r \in old : Cardinality(SameFolded(Rows, r)) = 1
                /\ {Core(x) : x \in Rows} \subseteq {Core(r) : r \in old}
                /\ \A r \in old :
                      SameFolded(old, r) = {r} =>
                          Core(r) \in {Core(x) : x \in Rows}
                /\ store.tmp.exists
                /\ store.tmp.rows = old

C16_Witness ==
    \E p \in Procs :
        /\ JustApplied(p, 2)
        /\ stepStart[p].jl.rows = OldRows
        /\ Cardinality(Rows) = 2
        /\ \E r \in Rows :
              r.location = LocAb /\ r.id = 1 /\ r.rank = 2

\* C17: migration step 3 keeps id, location and rank of every row and gives
\* every row a lastAccess; and whenever a process holds a Database (open
\* succeeded), every record has a lastAccess that is not NULL and
\* get_all_locations returns Ok with one entry per record.
C17_EveryRecordHasLastAccess ==
    \A p \in Procs :
        /\ JustApplied(p, 3) =>
              /\ {Core(x) : x \in Rows} = {Core(r) : r \in stepStart[p].jl.rows}
              /\ \A x \in Rows : x.lastAccess # Null
        /\ pc[p] \in {"open", "done"} =>
              /\ \A r \in Rows : r.lastAccess # Null
              /\ \A o \in get_all_locations(store) :
                    o.ok /\ Range(o.val) = {Render(r) : r \in Rows}
        /\ ret[p].op = "get_all_locations" =>
              ret[p].ok /\ Len(ret[p].val) = Cardinality(Rows)

C17_Witness ==
    \E p \in Procs :
        /\ ret[p].op = "get_all_locations"
        /\ ret[p].ok
        /\ Cardinality(origin.jl.rows) = 3
        /\ Len(ret[p].val) = 3
        /\ ~origin.jl.hasLA

\* C18: a successful add_location(X) changes only the record of X: every
\* record whose location differs from X ignoring case is the same before
\* and after, no other record appears, the record of X is one record, with
\* the id and the stored location it had if it was there, and the tables
\* and the stored version are as before.
C18_AddChangesOnlyItsRecord ==
    [][calls' # calls =>
          \E k \in Keys :
              /\ calls'[k] = calls[k] + 1
              /\ {r \in Rows : FoldStr(r.location) # k} =
                    {x \in Rows' : FoldStr(x.location) # k}
              /\ Cardinality({x \in Rows' : FoldStr(x.location) = k}) = 1
              /\ \A r \in Rows :
                    FoldStr(r.location) = k =>
                        \E x \in Rows' :
                            x.id = r.id /\ x.location = r.location
              /\ store' = [store EXCEPT !.jl.rows = Rows']]_vars

C18_Witness ==
    /\ \E p \in Procs :
          /\ ret[p].op = "add_location"
          /\ ret[p].ok
          /\ ret[p].args = <<LocAB>>
    /\ \E r \in Rows : r.location = LocAb /\ r.rank = 2 /\ r.lastAccess = clock
    /\ \E r \in Rows : r.location = LocBdA /\ r.lastAccess > clock

\* C19: on a store at the current version every step but a successful
\* add_location leaves the store as it is, records and stored version; and
\* opening such a store returns Ok having applied no migration step.  So
\* opening it any number of times leaves what opening it once leaves.
C19_OpenCurrentStoreIsNoOp ==
    [][/\ (Migrated /\ calls' = calls) => store' = store
       /\ \A p \in Procs :
             (/\ ret'[p].op = "migrate"
              /\ ret[p].op # "migrate"
              /\ mode[p] = "new"
              /\ startv[p] = Len(MIGRATIONS)) =>
                 /\ ret'[p].ok
                 /\ pc'[p] = "open"
                 /\ applied'[p] = <<>>]_vars

C19_Witness ==
    \E p \in Procs :
        /\ pc[p] = "open"
        /\ ret[p].op = "migrate"
        /\ startv[p] = Len(MIGRATIONS)
        /\ applied[p] = <<>>
        /\ origin.jl.rows # {}
        /\ AddCalls = MaxAdds

\* The records of the case-folded location k.
RecordsOf(k) == {r \in Rows : FoldStr(r.location) = k}

TimesApplied(k) ==
    Cardinality({pi \in Pair \X (1..Len(MIGRATIONS)) :
                    /\ pi[2] \in DOMAIN applied[pi[1]]
                    /\ applied[pi[1]][pi[2]] = k})

\* C20: when two processes open a store that is not at the current version
\* and both run migrate, every step is applied at most once, no migrate
\* call returns an error, the store is at the target version once a call
\* has returned, and every location of the store keeps a record.
C20_ConcurrentMigrateIsSafe ==
    /\ \A k \in 1..Len(MIGRATIONS) : TimesApplied(k) <= 1
    /\ \A p \in Pair :
          ret[p].op = "migrate" => ret[p].ok /\ Migrated
    /\ \A r \in origin.jl.rows : RecordsOf(FoldStr(r.location)) # {}

====
